---------------------------- MODULE Spec2Model ----------------------------
(***************************************************************************)
(* Model of the parametric-speaker firmware (src/code/src/main.rs).        *)
(*                                                                         *)
(* Three contexts share one core: the foreground `main` (startup, then an  *)
(* idle loop), the timer compare-match ISR TIM1_CC (the sample pump) and   *)
(* the USB ISR OTG_FS (the audio sink).  The two ISRs communicate through  *)
(* a heapless::spsc::Queue<i16, AUDIO_QUEUE_SIZE>.                         *)
(*                                                                         *)
(* The ring is the const-generic heapless queue: an array of N slots with  *)
(* a consumer-owned `head` and a producer-owned `tail`, both kept modulo   *)
(* N.  It is empty when head = tail and full when (tail + 1) % N = head,   *)
(* so that one slot always stays unused.                                   *)
(***************************************************************************)
EXTENDS Integers, Sequences, FiniteSets, TLC

(***************************************************************************)
(* Program constants.                                                      *)
(***************************************************************************)
AUDIO_QUEUE_SIZE == 4096

NO_SIGNAL_SAMPLES == 20000

AMPLIFY == 0

I16_MIN == -32768

I16_MAX == 32767

U16_MAX == 65535

I32_MAX == 2147483647

I32_MIN == -I32_MAX - 1

\* the priority main gives the USB interrupt; TIM1_CC keeps the reset value
OTG_FS_PRIORITY == 16

DEFAULT_PRIORITY == 0

\* size of the stack buffer the USB ISR reads a packet into
USB_BUF_LEN == 1024

(***************************************************************************)
(* Bounds of the model.  The interleaving specification runs the program   *)
(* with a scaled-down ring and silence threshold; the specifications that  *)
(* are about the nominal values use the program constants above.           *)
(***************************************************************************)
\* slots of the scaled ring (capacity QueueSlots - 1)
QueueSlots == 3

\* scaled NO_SIGNAL_SAMPLES
SilenceBound == 2

\* headroom of the scaled usize above the scaled threshold
UsizeHeadroom == 2

\* number of samples the host sends in a run
MaxSamples == 3

\* longest USB packet, in bytes
MaxPacketLen == 4

\* byte values a packet is made of: the samples 0, 255, -256 and -1
ByteValues == {0, 255}

\* value get_max_duty() reports in the interleaving specification (the nominal one)
NominalMaxDuty == {2399}

Containers ==
    {"G_PWM_MANAGER", "G_PWM_CHANNELS", "G_MAX_DUTY", "G_AUDIO_QUEUE_CONS",
     "G_USB_AUDIO", "G_USB_DEVICE", "G_AUDIO_QUEUE_PROD"}

TimContainers ==
    {"G_PWM_MANAGER", "G_PWM_CHANNELS", "G_MAX_DUTY", "G_AUDIO_QUEUE_CONS"}

UsbContainers == {"G_USB_AUDIO", "G_USB_DEVICE", "G_AUDIO_QUEUE_PROD"}

VARIABLES
    \* compile-time configuration, fixed by Init
    audio_queue_size,   \* N of spsc::Queue<i16, N>
    no_signal_samples,  \* NO_SIGNAL_SAMPLES
    usize_max,          \* usize::MAX
    \* foreground
    mainpc,             \* position of main
    max_duty,           \* main's local max_duty (0 before line 116)
    timer_max_duty,     \* what pwm_manager.get_max_duty() reports
    \* PWM channels pwm_channels[0], pwm_channels[1]
    polarity, comp_polarity, ch_enabled, comp_enabled, duty,
    cc1_listen,         \* pwm_manager.listen(Event::C1) done
    \* NVIC
    unmasked, priority,
    timpc,              \* "run" while a TIM1_CC invocation is in progress
    \* handle containers (the G_* statics) and the ISRs' cached handles
    published, tim_cache, usb_cache,
    \* the ring
    buffer, head, tail,
    \* TIM1_CC statics and last sample
    ZERO_COUNT, value,
    \* OTG_FS position and locals
    usbpc, data, val,
    halted,             \* a panic stopped the firmware
    \* history
    enqueued,           \* samples whose enqueue succeeded, in order
    dequeued,           \* samples the pump dequeued, in order
    budget,             \* samples the host may still send
    overruns,           \* enqueues that returned Full
    zero_run,           \* zero samples the pump processed since the last non-zero one
    since_enq,          \* pump invocations since the last successful enqueue
    occ_at_enq,         \* samples in the ring right after the last successful enqueue
    packet,             \* bytes the OTG_FS invocation in progress has read
    tries               \* enqueue calls the OTG_FS invocation in progress has made

cfgvars == <<audio_queue_size, no_signal_samples, usize_max, timer_max_duty>>

pwmvars == <<polarity, comp_polarity, ch_enabled, comp_enabled, duty>>

nvicvars == <<unmasked, priority, timpc>>

ringvars == <<buffer, head, tail>>

usbvars == <<usbpc, data, val>>

histvars ==
    <<enqueued, dequeued, budget, overruns, zero_run, since_enq, occ_at_enq,
      packet, tries>>

vars ==
    <<audio_queue_size, no_signal_samples, usize_max, mainpc, max_duty,
      timer_max_duty, polarity, comp_polarity, ch_enabled, comp_enabled, duty,
      cc1_listen, unmasked, priority, timpc, published, tim_cache, usb_cache,
      buffer, head, tail, ZERO_COUNT, value, usbpc, data, val, halted,
      enqueued, dequeued, budget, overruns, zero_run, since_enq, occ_at_enq,
      packet, tries>>

(***************************************************************************)
(* Arithmetic as the target computes it.                                   *)
(***************************************************************************)
\* a division that rounds to the nearest integer
TruncDivRound(a, b) ==
    (a \div b) + (IF 2 * (a % b) >= b THEN 1 ELSE 0)

\* Rust's integer division truncates towards zero
TruncDiv(a, b) ==
    IF a >= 0 THEN a \div b ELSE -((-a) \div b)

\* a narrowing to eight bits
AsU8(x) == x % 256

\* `as u16` keeps the low 16 bits
AsU16(x) == x % (U16_MAX + 1)

\* i16::from_be_bytes([b0, b1])
FromBeBytes(b0, b1) ==
    LET u == 256 * b0 + b1
    IN IF u > I16_MAX THEN u - (U16_MAX + 1) ELSE u

\* i16::from_le_bytes([b0, b1])
FromLeBytes(b0, b1) ==
    LET u == b0 + 256 * b1
    IN IF u > I16_MAX THEN u - (U16_MAX + 1) ELSE u

\* an increment that wraps to 0 at the largest value
WrappingInc(n, umax) ==
    IF n >= umax THEN 0 ELSE n + 1

\* usize::saturating_add(1)
SaturatingInc(n, umax) ==
    IF n >= umax THEN umax ELSE n + 1

DutyMin == I16_MIN + AMPLIFY

DutyMax == I16_MAX - AMPLIFY

\* The exact product *max_duty as i32 * (value as i32 - min) of two factors
\* below 2^16, as two 16-bit limbs <<high, low>> (the product itself can pass
\* 2^31, so it is never formed as one number)
DutyProduct(m, v) ==
    LET d == v - DutyMin
        a == m * (d \div 256)
        b == m * (d % 256)
        low == (a % 256) * 256 + b
    IN <<(a \div 256) + (low \div (U16_MAX + 1)), low % (U16_MAX + 1)>>

\* the multiplication done in a 16-bit type: any product above u16::MAX overflows
DutyOverflowsNarrow(m, v) ==
    DutyProduct(m, v)[1] > 0

\* the multiplication overflows i32: the exact product is above i32::MAX
DutyOverflows(m, v) ==
    DutyProduct(m, v)[1] > I16_MAX

\* the i32 the multiplication leaves when it wraps (two's complement)
DutyProductI32(m, v) ==
    LET p == DutyProduct(m, v)
    IN IF p[1] > I16_MAX
       THEN (p[1] - (U16_MAX + 1)) * (U16_MAX + 1) + p[2]
       ELSE p[1] * (U16_MAX + 1) + p[2]

\* a rescale that divides by the number of sample values, 2^16, for max - min
DutyOfShift(m, v) ==
    AsU16(TruncDiv(DutyProductI32(m, v), DutyMax - DutyMin + 1))

\* ((*max_duty as i32 * (value as i32 - min)) / (max - min)) as u16
DutyOf(m, v) ==
    AsU16(TruncDiv(DutyProductI32(m, v), DutyMax - DutyMin))

\* half of max_duty, rounded up
HalfDutyUp(m) == (m + 1) \div 2

\* max_duty / 2 in u16
HalfDuty(m) == m \div 2

(***************************************************************************)
(* set_output_state(pwm, enabled): the complementary polarities.           *)
(***************************************************************************)
\* set_output_state with its two branches exchanged
set_output_state_inverted(enabled) ==
    IF enabled
    THEN [c \in {0, 1} |-> IF c = 0 THEN "ActiveHigh" ELSE "ActiveLow"]
    ELSE [c \in {0, 1} |-> IF c = 0 THEN "ActiveLow" ELSE "ActiveHigh"]

set_output_state(enabled) ==
    IF enabled
    THEN [c \in {0, 1} |-> IF c = 0 THEN "ActiveLow" ELSE "ActiveHigh"]
    ELSE [c \in {0, 1} |-> IF c = 0 THEN "ActiveHigh" ELSE "ActiveLow"]

OutputEnabled ==
    comp_polarity[0] = "ActiveLow" /\ comp_polarity[1] = "ActiveHigh"

OutputDisabled ==
    comp_polarity[0] = "ActiveHigh" /\ comp_polarity[1] = "ActiveLow"

(***************************************************************************)
(* The ring.                                                               *)
(***************************************************************************)
Increment(i) == (i + 1) % audio_queue_size

RingLen == (tail - head + audio_queue_size) % audio_queue_size

RingIsEmpty == head = tail

RECURSIVE RingSlice(_, _)
RingSlice(from, n) ==
    IF n = 0 THEN <<>>
    ELSE <<buffer[from]>> \o RingSlice((from + 1) % audio_queue_size, n - 1)

\* the queued samples, oldest first
RingContents == RingSlice(head, RingLen)

(***************************************************************************)
(* Initial state: the reset state of the chip and of the statics.          *)
(***************************************************************************)
InitProgram(n, nss, umax, maxduties) ==
    /\ audio_queue_size = n
    /\ no_signal_samples = nss
    /\ usize_max = umax
    /\ timer_max_duty \in maxduties
    /\ mainpc = "l106"
    /\ max_duty = 0
    /\ polarity = [c \in {0, 1} |-> "ActiveHigh"]
    /\ comp_polarity = [c \in {0, 1} |-> "ActiveHigh"]
    /\ ch_enabled = [c \in {0, 1} |-> FALSE]
    /\ comp_enabled = [c \in {0, 1} |-> FALSE]
    /\ duty = [c \in {0, 1} |-> 0]
    /\ cc1_listen = FALSE
    /\ unmasked = {}
    /\ priority = [i \in {"TIM1_CC", "OTG_FS"} |-> DEFAULT_PRIORITY]
    /\ timpc = "idle"
    /\ published = {}
    /\ tim_cache = {}
    /\ usb_cache = {}
    /\ buffer = [i \in 0..(n - 1) |-> 0]
    /\ head = 0
    /\ tail = 0
    /\ ZERO_COUNT = nss + 1
    /\ value = 0
    /\ usbpc = "idle"
    /\ data = <<>>
    /\ val = 0
    /\ halted = FALSE
    /\ enqueued = <<>>
    /\ dequeued = <<>>
    /\ budget = MaxSamples
    /\ overruns = 0
    /\ zero_run = 0
    /\ since_enq = 0
    /\ occ_at_enq = 0
    /\ packet = <<>>
    /\ tries = 0

Init ==
    InitProgram(QueueSlots, SilenceBound, SilenceBound + 1 + UsizeHeadroom,
                NominalMaxDuty)

(***************************************************************************)
(* main: startup, one step per statement that touches shared state.        *)
(***************************************************************************)
\* thread mode runs only while no interrupt handler is active
MainStep(from, to) ==
    /\ ~halted
    /\ timpc = "idle"
    /\ usbpc = "idle"
    /\ mainpc = from
    /\ mainpc' = to

\* line 106: set_output_state(&mut pwm_channels, false)
Main_DisableOutput ==
    /\ MainStep("l106", "l108")
    /\ comp_polarity' = set_output_state(FALSE)
    /\ UNCHANGED <<cfgvars, max_duty, polarity, ch_enabled, comp_enabled, duty,
                   cc1_listen, nvicvars, published, tim_cache, usb_cache,
                   ringvars, ZERO_COUNT, value, usbvars, halted, histvars>>

\* a startup that makes both primary outputs active-high
Main_SetPolarityBothHigh ==
    /\ \E c \in {0, 1} :
          /\ MainStep(IF c = 0 THEN "l108" ELSE "l112",
                      IF c = 0 THEN "l109" ELSE "l113")
          /\ polarity' = [polarity EXCEPT ![c] = "ActiveHigh"]
    /\ UNCHANGED <<cfgvars, max_duty, comp_polarity, ch_enabled, comp_enabled,
                   duty, cc1_listen, nvicvars, published, tim_cache, usb_cache,
                   ringvars, ZERO_COUNT, value, usbvars, halted, histvars>>

\* lines 108 and 112: set_polarity(ActiveHigh) on C1, set_polarity(ActiveLow) on C2
Main_SetPolarity ==
    /\ \E c \in {0, 1} :
          /\ MainStep(IF c = 0 THEN "l108" ELSE "l112",
                      IF c = 0 THEN "l109" ELSE "l113")
          /\ polarity' =
                [polarity EXCEPT ![c] = IF c = 0 THEN "ActiveHigh" ELSE "ActiveLow"]
    /\ UNCHANGED <<cfgvars, max_duty, comp_polarity, ch_enabled, comp_enabled,
                   duty, cc1_listen, nvicvars, published, tim_cache, usb_cache,
                   ringvars, ZERO_COUNT, value, usbvars, halted, histvars>>

\* lines 109 and 113: enable()
Main_Enable ==
    /\ \E c \in {0, 1} :
          /\ MainStep(IF c = 0 THEN "l109" ELSE "l113",
                      IF c = 0 THEN "l110" ELSE "l114")
          /\ ch_enabled' = [ch_enabled EXCEPT ![c] = TRUE]
    /\ UNCHANGED <<cfgvars, max_duty, polarity, comp_polarity, comp_enabled,
                   duty, cc1_listen, nvicvars, published, tim_cache, usb_cache,
                   ringvars, ZERO_COUNT, value, usbvars, halted, histvars>>

\* lines 110 and 114: enable_complementary()
Main_EnableComplementary ==
    /\ \E c \in {0, 1} :
          /\ MainStep(IF c = 0 THEN "l110" ELSE "l114",
                      IF c = 0 THEN "l112" ELSE "l116")
          /\ comp_enabled' = [comp_enabled EXCEPT ![c] = TRUE]
    /\ UNCHANGED <<cfgvars, max_duty, polarity, comp_polarity, ch_enabled,
                   duty, cc1_listen, nvicvars, published, tim_cache, usb_cache,
                   ringvars, ZERO_COUNT, value, usbvars, halted, histvars>>

\* line 116: let max_duty = pwm_manager.get_max_duty()
Main_GetMaxDuty ==
    /\ MainStep("l116", "l118")
    /\ max_duty' = timer_max_duty
    /\ UNCHANGED <<cfgvars, pwmvars, cc1_listen, nvicvars, published, tim_cache,
                   usb_cache, ringvars, ZERO_COUNT, value, usbvars, halted,
                   histvars>>

\* a startup that sets the duty of C1 twice and never that of C2
Main_SetDutyOneChannel ==
    /\ \E c \in {0, 1} :
          /\ MainStep(IF c = 0 THEN "l118" ELSE "l119",
                      IF c = 0 THEN "l119" ELSE "l120")
          /\ duty' = [duty EXCEPT ![0] = HalfDuty(max_duty)]
    /\ UNCHANGED <<cfgvars, max_duty, polarity, comp_polarity, ch_enabled,
                   comp_enabled, cc1_listen, nvicvars, published, tim_cache,
                   usb_cache, ringvars, ZERO_COUNT, value, usbvars, halted,
                   histvars>>

\* lines 118 and 119: set_duty(max_duty / 2) on C1, then on C2
Main_SetDuty ==
    /\ \E c \in {0, 1} :
          /\ MainStep(IF c = 0 THEN "l118" ELSE "l119",
                      IF c = 0 THEN "l119" ELSE "l120")
          /\ duty' = [duty EXCEPT ![c] = HalfDuty(max_duty)]
    /\ UNCHANGED <<cfgvars, max_duty, polarity, comp_polarity, ch_enabled,
                   comp_enabled, cc1_listen, nvicvars, published, tim_cache,
                   usb_cache, ringvars, ZERO_COUNT, value, usbvars, halted,
                   histvars>>

\* line 120: pwm_manager.listen(Event::C1)
Main_Listen ==
    /\ MainStep("l120", "l134")
    /\ cc1_listen' = TRUE
    /\ UNCHANGED <<cfgvars, max_duty, pwmvars, nvicvars, published, tim_cache,
                   usb_cache, ringvars, ZERO_COUNT, value, usbvars, halted,
                   histvars>>

\* lines 134-162: one critical section publishes the ring halves and the USB handles
Main_PublishAudio ==
    /\ MainStep("l134", "l164")
    /\ published' = published \cup
          {"G_AUDIO_QUEUE_PROD", "G_AUDIO_QUEUE_CONS", "G_USB_AUDIO", "G_USB_DEVICE"}
    /\ UNCHANGED <<cfgvars, max_duty, pwmvars, cc1_listen, nvicvars, tim_cache,
                   usb_cache, ringvars, ZERO_COUNT, value, usbvars, halted,
                   histvars>>

\* a startup that leaves the max_duty cell unset
Main_PublishPwmNoDuty ==
    /\ MainStep("l164", "l171")
    /\ published' = published \cup {"G_PWM_MANAGER", "G_PWM_CHANNELS"}
    /\ UNCHANGED <<cfgvars, max_duty, pwmvars, cc1_listen, nvicvars, tim_cache,
                   usb_cache, ringvars, ZERO_COUNT, value, usbvars, halted,
                   histvars>>

\* lines 164-168: one critical section publishes the PWM handles and max_duty
Main_PublishPwm ==
    /\ MainStep("l164", "l171")
    /\ published' = published \cup {"G_PWM_MANAGER", "G_PWM_CHANNELS", "G_MAX_DUTY"}
    /\ UNCHANGED <<cfgvars, max_duty, pwmvars, cc1_listen, nvicvars, tim_cache,
                   usb_cache, ringvars, ZERO_COUNT, value, usbvars, halted,
                   histvars>>

\* a startup that lowers the urgency of the timer interrupt instead
Main_SetPriorityOfTimer ==
    /\ MainStep("l171", "l173")
    /\ priority' = [priority EXCEPT !["TIM1_CC"] = OTG_FS_PRIORITY]
    /\ UNCHANGED <<cfgvars, max_duty, pwmvars, cc1_listen, unmasked, timpc,
                   published, tim_cache, usb_cache, ringvars, ZERO_COUNT, value,
                   usbvars, halted, histvars>>

\* line 171: c.NVIC.set_priority(pac::Interrupt::OTG_FS, 16)
Main_SetPriority ==
    /\ MainStep("l171", "l173")
    /\ priority' = [priority EXCEPT !["OTG_FS"] = OTG_FS_PRIORITY]
    /\ UNCHANGED <<cfgvars, max_duty, pwmvars, cc1_listen, unmasked, timpc, published,
                   tim_cache, usb_cache, ringvars, ZERO_COUNT, value, usbvars,
                   halted, histvars>>

\* lines 173 and 174: NVIC::unmask(TIM1_CC), then NVIC::unmask(OTG_FS); then loop {}
Main_Unmask ==
    /\ \E irq \in {"TIM1_CC", "OTG_FS"} :
          /\ MainStep(IF irq = "TIM1_CC" THEN "l173" ELSE "l174",
                      IF irq = "TIM1_CC" THEN "l174" ELSE "idle")
          /\ unmasked' = unmasked \cup {irq}
    /\ UNCHANGED <<cfgvars, max_duty, pwmvars, cc1_listen, priority, timpc, published,
                   tim_cache, usb_cache, ringvars, ZERO_COUNT, value, usbvars,
                   halted, histvars>>

Main ==
    \/ Main_DisableOutput
    \/ Main_SetPolarity
    \/ Main_Enable
    \/ Main_EnableComplementary
    \/ Main_GetMaxDuty
    \/ Main_SetDuty
    \/ Main_Listen
    \/ Main_PublishAudio
    \/ Main_PublishPwm
    \/ Main_SetPriority
    \/ Main_Unmask

(***************************************************************************)
(* TIM1_CC: the sample pump.  It has the highest priority, so it runs to   *)
(* completion as one step; it may start between any two steps of OTG_FS    *)
(* once that interrupt's priority value is above its own.  (The            *)
(* specification of preemption takes its entry and its body as two steps.) *)
(***************************************************************************)
\* lines 193-204: every handle is cached or still in its container (else unwrap panics)
TimTakeOk == (TimContainers \ tim_cache) \subseteq published

\* the containers the first invocation empties (G_MAX_DUTY is a OnceCell, read by get())
TimTaken == (TimContainers \ tim_cache) \ {"G_MAX_DUTY"}

\* an underrun that repeats the last sample
DequeuedValueStale == IF RingIsEmpty THEN value ELSE buffer[head]

\* lines 219-224: Some(value) from queue.dequeue(), or 0 on underrun
DequeuedValue == IF RingIsEmpty THEN 0 ELSE buffer[head]

\* a dequeue that drops the sample behind the one it returns
DequeuedHeadTwo ==
    IF RingIsEmpty THEN head ELSE Increment(Increment(head))

\* a dequeue that returns the sample and leaves head where it is
DequeuedHeadStuck == head

\* heapless dequeue: head advances by one slot when a sample was taken
DequeuedHead == IF RingIsEmpty THEN head ELSE Increment(head)

\* a counter that a non-zero sample does not clear
GateCountNoReset(v) ==
    IF v = 0 THEN SaturatingInc(ZERO_COUNT, usize_max) ELSE ZERO_COUNT

\* lines 226-236: the zero-run counter after a sample v
GateCount(v) ==
    IF v = 0 THEN SaturatingInc(ZERO_COUNT, usize_max) ELSE 0

\* a gate that closes one zero early (>= for >)
GatePolarityEarly(v) ==
    IF v = 0
    THEN IF GateCount(v) >= no_signal_samples
         THEN set_output_state(FALSE)
         ELSE comp_polarity
    ELSE set_output_state(TRUE)

\* lines 226-236: the complementary polarities after a sample v
GatePolarity(v) ==
    IF v = 0
    THEN IF GateCount(v) > no_signal_samples
         THEN set_output_state(FALSE)
         ELSE comp_polarity
    ELSE set_output_state(TRUE)

\* since_enq stops counting where the silence gate must have closed
SinceCap == audio_queue_size + no_signal_samples + 1

\* NVIC: a handler preempts another one only with a strictly lower priority value
Preempts(a, b) == priority[a] < priority[b]

\* the compare interrupt is taken: enabled, pending, and not held off by OTG_FS
TimMayRun ==
    /\ ~halted
    /\ "TIM1_CC" \in unmasked
    /\ cc1_listen
    /\ timpc = "idle"
    /\ usbpc = "idle" \/ Preempts("TIM1_CC", "OTG_FS")

\* lines 184-250: the handler from its first statement to its return
TimBody ==
    /\ IF ~TimTakeOk
       THEN /\ halted' = TRUE
            /\ UNCHANGED <<cfgvars, mainpc, max_duty, pwmvars, cc1_listen,
                           unmasked, priority, published, tim_cache, usb_cache,
                           ringvars, ZERO_COUNT, value, usbvars, histvars>>
       ELSE /\ tim_cache' = TimContainers
            /\ published' = published \ TimTaken
            /\ value' = DequeuedValue
            /\ head' = DequeuedHead
            /\ dequeued' =
                  IF RingIsEmpty THEN dequeued ELSE Append(dequeued, DequeuedValue)
            /\ ZERO_COUNT' = GateCount(DequeuedValue)
            /\ comp_polarity' = GatePolarity(DequeuedValue)
            \* line 238: overflow panics with overflow checks on, wraps without
            /\ \E overflow_checks \in BOOLEAN :
                  IF overflow_checks /\ DutyOverflows(max_duty, DequeuedValue)
                  THEN /\ halted' = TRUE
                       /\ duty' = duty
                  ELSE /\ halted' = halted
                       /\ duty' = [c \in {0, 1} |-> DutyOf(max_duty, DequeuedValue)]
            /\ zero_run' =
                  IF DequeuedValue = 0 THEN SaturatingInc(zero_run, usize_max) ELSE 0
            /\ since_enq' = SaturatingInc(since_enq, SinceCap)
            /\ UNCHANGED <<cfgvars, mainpc, max_duty, polarity, ch_enabled,
                           comp_enabled, cc1_listen, unmasked, priority,
                           usb_cache, buffer, tail, usbvars, enqueued, budget,
                           overruns, occ_at_enq, packet, tries>>

TIM1_CC ==
    /\ TimMayRun
    /\ TimBody
    /\ timpc' = timpc

(***************************************************************************)
(* OTG_FS: the USB audio sink.  The timer ISR may preempt it between any   *)
(* two of its steps; an enqueue is three steps (the full check against the *)
(* consumer's head, the slot write, the publication of the new tail).      *)
(***************************************************************************)
\* lines 258-268: every handle is cached or still in its container
UsbTakeOk == (UsbContainers \ usb_cache) \subseteq published

\* the USB interrupt is taken: enabled, not active, and not held off by TIM1_CC
UsbMayStart ==
    /\ ~halted
    /\ "OTG_FS" \in unmasked
    /\ usbpc = "idle"
    /\ timpc = "idle" \/ Preempts("OTG_FS", "TIM1_CC")

\* an OTG_FS invocation goes on: it is not preempted by a TIM1_CC invocation
UsbMayRun ==
    /\ ~halted
    /\ timpc = "idle" \/ Preempts("OTG_FS", "TIM1_CC")

\* the packets usb_audio.read can deliver
PacketsOfLen(len) == [1..len -> ByteValues]

\* lines 258-272: poll reports nothing, or read returns Err
OTG_FS_NoData ==
    /\ UsbMayStart
    /\ IF ~UsbTakeOk
       THEN /\ halted' = TRUE
            /\ UNCHANGED <<published, usb_cache>>
       ELSE /\ usb_cache' = UsbContainers
            /\ published' = published \ (UsbContainers \ usb_cache)
            /\ halted' = halted
    /\ UNCHANGED <<cfgvars, mainpc, max_duty, pwmvars, cc1_listen, nvicvars,
                   tim_cache, ringvars, ZERO_COUNT, value, usbvars, histvars>>

\* lines 258-273: poll reports data and read returns Ok(len) with one of `pkts`
OTG_FS_ReadFrom(pkts) ==
    /\ UsbMayStart
    /\ IF ~UsbTakeOk
       THEN /\ halted' = TRUE
            /\ UNCHANGED <<published, usb_cache, usbvars, budget, packet, tries>>
       ELSE /\ usb_cache' = UsbContainers
            /\ published' = published \ (UsbContainers \ usb_cache)
            /\ halted' = halted
            /\ \E bytes \in pkts :
                  /\ Len(bytes) <= USB_BUF_LEN
                  /\ Len(bytes) \div 2 <= budget
                  /\ data' = bytes
                  /\ packet' = bytes
                  /\ budget' = budget - (Len(bytes) \div 2)
            /\ usbpc' = "loop"
            /\ val' = val
            /\ tries' = 0
    /\ UNCHANGED <<cfgvars, mainpc, max_duty, pwmvars, cc1_listen, nvicvars,
                   tim_cache, ringvars, ZERO_COUNT, value, enqueued, dequeued,
                   overruns, zero_run, since_enq, occ_at_enq>>

\* the packets the host sends in the interleaving specification
HostPackets == UNION {PacketsOfLen(len) : len \in 0..MaxPacketLen}

OTG_FS_Read == OTG_FS_ReadFrom(HostPackets)

\* an enqueue that writes one slot too far
EnqueueSlotNext(t) == Increment(t)

\* heapless enqueue: the slot a sample is written to
EnqueueSlot(t) == t

\* heapless enqueue: the tail published after the write
EnqueueTail(t) == Increment(t)

\* an enqueue without the full check
EnqueueNeverFull(h, t) == FALSE

\* heapless enqueue: no free slot
EnqueueIsFull(h, t) == Increment(t) = h

\* lines 275-283: next chunk of two bytes, and the full check of enqueue
OTG_FS_Chunk ==
    /\ UsbMayRun
    /\ usbpc = "loop"
    /\ Len(data) >= 2
    /\ val' = FromLeBytes(data[1], data[2])
    /\ data' = SubSeq(data, 3, Len(data))
    /\ usbpc' = IF EnqueueIsFull(head, tail) THEN "loop" ELSE "write"
    /\ overruns' = IF EnqueueIsFull(head, tail) THEN overruns + 1 ELSE overruns
    /\ tries' = tries + 1
    /\ UNCHANGED <<cfgvars, mainpc, max_duty, pwmvars, cc1_listen, nvicvars,
                   published, tim_cache, usb_cache, ringvars, ZERO_COUNT, value,
                   halted, enqueued, dequeued, budget, zero_run, since_enq,
                   occ_at_enq, packet>>

\* line 281, enqueue: write the sample into the slot at tail
OTG_FS_Write ==
    /\ UsbMayRun
    /\ usbpc = "write"
    /\ buffer' = [buffer EXCEPT ![EnqueueSlot(tail)] = val]
    /\ usbpc' = "publish"
    /\ UNCHANGED <<cfgvars, mainpc, max_duty, pwmvars, cc1_listen, nvicvars,
                   published, tim_cache, usb_cache, head, tail, ZERO_COUNT,
                   value, data, val, halted, histvars>>

\* line 281, enqueue: store the new tail, which hands the sample to the consumer
OTG_FS_Publish ==
    /\ UsbMayRun
    /\ usbpc = "publish"
    /\ tail' = EnqueueTail(tail)
    /\ enqueued' = Append(enqueued, val)
    /\ since_enq' = 0
    /\ occ_at_enq' = (EnqueueTail(tail) - head + audio_queue_size) % audio_queue_size
    /\ usbpc' = "loop"
    /\ UNCHANGED <<cfgvars, mainpc, max_duty, pwmvars, cc1_listen, nvicvars,
                   published, tim_cache, usb_cache, buffer, head, ZERO_COUNT,
                   value, data, val, halted, dequeued, budget, overruns,
                   zero_run, packet, tries>>

\* line 275: chunks_exact(2) is exhausted (a trailing odd byte is left over)
OTG_FS_Return ==
    /\ UsbMayRun
    /\ usbpc = "loop"
    /\ Len(data) < 2
    /\ usbpc' = "idle"
    /\ data' = <<>>
    /\ packet' = <<>>
    /\ tries' = 0
    /\ UNCHANGED <<cfgvars, mainpc, max_duty, pwmvars, cc1_listen, nvicvars,
                   published, tim_cache, usb_cache, ringvars, ZERO_COUNT, value,
                   val, halted, enqueued, dequeued, budget, overruns, zero_run,
                   since_enq, occ_at_enq>>

OTG_FS ==
    \/ OTG_FS_NoData
    \/ OTG_FS_Read
    \/ OTG_FS_Chunk
    \/ OTG_FS_Write
    \/ OTG_FS_Publish
    \/ OTG_FS_Return

Next == Main \/ TIM1_CC \/ OTG_FS

Spec == Init /\ [][Next]_vars

(***************************************************************************)
(* The state startup and `samples` back-to-back successful enqueues (one   *)
(* packet per sample) lead to when the timer has not fired yet: the state  *)
(* the specifications of the ring's capacity and of the duty computation   *)
(* start from.                                                             *)
(***************************************************************************)
AfterEnqueues(n, nss, umax, m, samples, left) ==
    /\ audio_queue_size = n
    /\ no_signal_samples = nss
    /\ usize_max = umax
    /\ timer_max_duty = m
    /\ mainpc = "idle"
    /\ max_duty = m
    /\ polarity = [c \in {0, 1} |-> IF c = 0 THEN "ActiveHigh" ELSE "ActiveLow"]
    /\ comp_polarity = set_output_state(FALSE)
    /\ ch_enabled = [c \in {0, 1} |-> TRUE]
    /\ comp_enabled = [c \in {0, 1} |-> TRUE]
    /\ duty = [c \in {0, 1} |-> HalfDuty(m)]
    /\ cc1_listen = TRUE
    /\ unmasked = {"TIM1_CC", "OTG_FS"}
    /\ priority = [i \in {"TIM1_CC", "OTG_FS"} |->
                      IF i = "OTG_FS" THEN OTG_FS_PRIORITY ELSE DEFAULT_PRIORITY]
    /\ timpc = "idle"
    /\ published = IF samples = <<>> THEN Containers ELSE TimContainers
    /\ tim_cache = {}
    /\ usb_cache = IF samples = <<>> THEN {} ELSE UsbContainers
    /\ buffer = [i \in 0..(n - 1) |-> IF i < Len(samples) THEN samples[i + 1] ELSE 0]
    /\ head = 0
    /\ tail = Len(samples)
    /\ ZERO_COUNT = nss + 1
    /\ value = 0
    /\ usbpc = "idle"
    /\ data = <<>>
    /\ val = IF samples = <<>> THEN 0 ELSE samples[Len(samples)]
    /\ halted = FALSE
    /\ enqueued = samples
    /\ dequeued = <<>>
    /\ budget = left
    /\ overruns = 0
    /\ zero_run = 0
    /\ since_enq = 0
    /\ occ_at_enq = Len(samples)
    /\ packet = <<>>
    /\ tries = 0

(***************************************************************************)
(* The overrun scenario on the nominal ring: distinct samples v0, v1, ...  *)
(* (vk = k) arrive one per packet with no timer interrupt in between, and  *)
(* once the host has sent AUDIO_QUEUE_SIZE + 1 of them the pump drains the *)
(* ring.                                                                   *)
(***************************************************************************)
\* samples the USB ISR has tried to enqueue
Attempted == Len(enqueued) + overruns

\* the packet carrying the next test sample, little-endian
TestPacket == <<Attempted % 256, Attempted \div 256>>

\* the run starts on the empty ring, or with AUDIO_QUEUE_SIZE - 1 samples queued
FillLevels == {0, AUDIO_QUEUE_SIZE - 1}

InitRing ==
    \E k \in FillLevels :
        AfterEnqueues(AUDIO_QUEUE_SIZE, SilenceBound,
                      SilenceBound + 1 + UsizeHeadroom, 2399,
                      [i \in 1..k |-> i - 1], AUDIO_QUEUE_SIZE + 1 - k)

OTG_FS_ReadTest == OTG_FS_ReadFrom({TestPacket})

\* the host has sent everything and the USB ISR has returned
FillDone == budget = 0 /\ usbpc = "idle"

Drain == FillDone /\ TIM1_CC

NextRing ==
    \/ OTG_FS_ReadTest
    \/ OTG_FS_Chunk
    \/ OTG_FS_Write
    \/ OTG_FS_Publish
    \/ OTG_FS_Return
    \/ Drain

SpecRing == InitRing /\ [][NextRing]_vars

(***************************************************************************)
(* The duty computation on its whole input range: one sample v is queued,  *)
(* the timer reports max_duty m, and the pump processes the sample.        *)
(***************************************************************************)
AllMaxDuty == 0..U16_MAX

AllSamples == I16_MIN..I16_MAX

\* the samples every max_duty is tried with
EdgeSamples == {I16_MIN, -1, 0, 1, I16_MAX}

\* the values of max_duty every sample is tried with
EdgeMaxDuty == {1, 2399, 2400, I16_MAX, I16_MAX + 1}

DutyInputs == (AllMaxDuty \X EdgeSamples) \cup (EdgeMaxDuty \X AllSamples)

InitDuty ==
    \E in \in DutyInputs :
        AfterEnqueues(QueueSlots, SilenceBound, SilenceBound + 1 + UsizeHeadroom,
                      in[1], <<in[2]>>, 0)

PumpQueued == ~RingIsEmpty /\ TIM1_CC

NextDuty == PumpQueued

SpecDuty == InitDuty /\ [][NextDuty]_vars

(***************************************************************************)
(* Monotonicity of the duty computation: two samples v1 <= v2 are queued   *)
(* and the pump processes one after the other.  Every pair of neighbours   *)
(* (v, v + 1) is tried, and every pair of edge samples.                    *)
(***************************************************************************)
\* the values of max_duty the pairs are tried with
MonoMaxDuty == {1, 2399, 2400, I16_MAX, I16_MAX + 1}

MonoPairs ==
    {<<v, v + 1>> : v \in I16_MIN..(I16_MAX - 1)}
        \cup {p \in EdgeSamples \X EdgeSamples : p[1] <= p[2]}

InitMono ==
    \E m \in MonoMaxDuty, p \in MonoPairs :
        AfterEnqueues(QueueSlots, SilenceBound, SilenceBound + 1 + UsizeHeadroom,
                      m, p, 0)

SpecMono == InitMono /\ [][NextDuty]_vars

(***************************************************************************)
(* The USB ISR on a ring that is empty or full when the packets arrive:    *)
(* the host sends up to MaxPacketLen bytes in all, in one packet or in     *)
(* several, while the timer keeps firing.                                  *)
(***************************************************************************)
\* samples queued when the run starts: none, or as many as the ring holds
PacketFillLevels == {0, QueueSlots - 1}

InitPacket ==
    \E k \in PacketFillLevels :
        AfterEnqueues(QueueSlots, SilenceBound, SilenceBound + 1 + UsizeHeadroom,
                      2399, [i \in 1..k |-> i], MaxPacketLen \div 2)

NextPacket == OTG_FS \/ TIM1_CC

SpecPacket == InitPacket /\ [][NextPacket]_vars

(***************************************************************************)
(* Preemption: the program with the timer ISR taken as two steps, its      *)
(* entry and its body up to the return, so that a TIM1_CC invocation in    *)
(* progress is a state and the priorities decide what may run meanwhile.   *)
(***************************************************************************)
\* exception entry of TIM1_CC
TIM1_CC_Entry ==
    /\ TimMayRun
    /\ timpc' = "run"
    /\ UNCHANGED <<cfgvars, mainpc, max_duty, pwmvars, cc1_listen, unmasked,
                   priority, published, tim_cache, usb_cache, ringvars,
                   ZERO_COUNT, value, usbvars, halted, histvars>>

\* the body of TIM1_CC and its return, unless an OTG_FS invocation preempted it
TIM1_CC_Exit ==
    /\ ~halted
    /\ timpc = "run"
    /\ usbpc = "idle" \/ Preempts("TIM1_CC", "OTG_FS")
    /\ TimBody
    /\ timpc' = "idle"

NextPreempt == Main \/ TIM1_CC_Entry \/ TIM1_CC_Exit \/ OTG_FS

SpecPreempt == Init /\ [][NextPreempt]_vars

\* the foreground finishes startup, the timer fires every period, and an
\* OTG_FS invocation that has started runs on to its return
FairSpec ==
    /\ Spec
    /\ WF_vars(Main)
    /\ WF_vars(TIM1_CC)
    /\ WF_vars(OTG_FS_Chunk \/ OTG_FS_Write \/ OTG_FS_Publish \/ OTG_FS_Return)

(***************************************************************************)
(* Properties.                                                             *)
(***************************************************************************)
IsPrefix(s, t) ==
    /\ Len(s) <= Len(t)
    /\ \A i \in 1..Len(s) : s[i] = t[i]

\* the pump has processed a non-zero sample
SeenNonZero == \E i \in 1..Len(dequeued) : dequeued[i] # 0

\* the duty of section 4.4, (max_duty * (v - min)) / (max - min) with AMPLIFY = 0
RescaleFormula(m, v) == (m * (v + 32768)) \div 65535

\* C1: in every interleaving of USB enqueue steps and timer dequeues, the
\* samples dequeued so far are a prefix of the samples whose enqueue
\* succeeded, and the successful enqueues are exactly the dequeued samples
\* followed by the ring's contents (none duplicated, reordered or lost).
C1_Fifo ==
    /\ IsPrefix(dequeued, enqueued)
    /\ enqueued = dequeued \o RingContents

\* two different samples were dequeued and the USB ISR is in the middle of a
\* further enqueue, its slot written and its tail not yet published
C1_Witness ==
    /\ Len(dequeued) >= 2
    /\ dequeued[1] # dequeued[2]
    /\ RingIsEmpty
    /\ usbpc = "publish"

\* C2: the ring never holds more than N = AUDIO_QUEUE_SIZE samples, and an
\* enqueue attempted while the ring is full returns Full (the ISR goes on to
\* the next chunk without a write) and leaves the slots, the indices and the
\* queued samples as they were.
C2_CapacityAndFull ==
    /\ [](/\ Len(enqueued) - Len(dequeued) <= audio_queue_size
          /\ Len(RingContents) = Len(enqueued) - Len(dequeued))
    /\ [][(/\ usbpc = "loop"
           /\ data' # data
           /\ Len(data') >= Len(data) - 2
           /\ Len(data) >= 2
           /\ RingLen = audio_queue_size - 1)
          => (/\ usbpc' = "loop"
              /\ overruns' = overruns + 1
              /\ buffer' = buffer
              /\ head' = head
              /\ tail' = tail
              /\ enqueued' = enqueued
              /\ RingContents' = RingContents)]_vars

\* an enqueue found the ring full, and the ring is still full
C2_Witness ==
    /\ overruns > 0
    /\ RingLen = audio_queue_size - 1
    /\ Len(enqueued) >= audio_queue_size - 1

\* C4: from the gating write of startup on, and as long as the pump has not
\* processed a non-zero sample, the output is disabled (C1 complementary
\* ActiveHigh, C2 complementary ActiveLow), whatever the timer does.
C4_MutedUntilSignal ==
    (mainpc # "l106" /\ ~SeenNonZero)
        => (comp_polarity[0] = "ActiveHigh" /\ comp_polarity[1] = "ActiveLow")

\* the USB ISR never enqueued, the timer fired until the counter saturated
C4_Witness ==
    /\ mainpc = "idle"
    /\ enqueued = <<>>
    /\ zero_run >= no_signal_samples + 2
    /\ ZERO_COUNT = usize_max
    /\ OutputDisabled

\* C5: after a non-zero sample, the output is enabled after each of the first
\* NO_SIGNAL_SAMPLES consecutive zeros and disabled from the
\* (NO_SIGNAL_SAMPLES + 1)-th consecutive zero on.
C5_GateLatency ==
    SeenNonZero =>
        /\ zero_run <= no_signal_samples => OutputEnabled
        /\ zero_run >= no_signal_samples + 1 => OutputDisabled

\* the (NO_SIGNAL_SAMPLES + 1)-th zero after a non-zero sample has been processed
C5_Witness ==
    /\ SeenNonZero
    /\ zero_run = no_signal_samples + 1
    /\ OutputDisabled

\* C6: a pump invocation that processes a non-zero sample leaves the output
\* enabled, the zero-run counter 0 and both duties at the rescaled sample.
C6_NonZeroEnables ==
    [][(dequeued' # dequeued /\ value' # 0)
        => (/\ comp_polarity'[0] = "ActiveLow"
            /\ comp_polarity'[1] = "ActiveHigh"
            /\ ZERO_COUNT' = 0
            /\ duty'[0] = RescaleFormula(max_duty, value')
            /\ duty'[1] = RescaleFormula(max_duty, value'))]_vars

\* the first sample ever processed was non-zero: the power-up mute is lifted
C6_Witness ==
    /\ Len(dequeued) = 1
    /\ value # 0
    /\ since_enq = 1
    /\ OutputEnabled
    /\ ZERO_COUNT = 0

\* C7: NO_SIGNAL_SAMPLES + 1 pump invocations after the ring held by the last
\* enqueue is drained the output is disabled; and if the USB ISR stops
\* enqueueing, the ring is eventually empty and the output disabled for good.
C7_SilenceAfterDisconnect ==
    /\ [](since_enq >= occ_at_enq + no_signal_samples + 1 => OutputDisabled)
    /\ <>[][enqueued' = enqueued]_vars => <>[](RingIsEmpty /\ OutputDisabled)

\* the host sent all it had, the pump drained it and has just closed the gate
C7_Witness ==
    /\ budget = 0
    /\ SeenNonZero
    /\ RingIsEmpty
    /\ occ_at_enq >= 2
    /\ since_enq = occ_at_enq + no_signal_samples + 1
    /\ OutputDisabled

\* C3 as stated: of AUDIO_QUEUE_SIZE + 1 back-to-back enqueues of v0, v1, ...
\* into the empty ring only the last returns Full, and AUDIO_QUEUE_SIZE
\* dequeues then return v0 .. v(AUDIO_QUEUE_SIZE - 1) in order.
C3_Original ==
    /\ Attempted <= AUDIO_QUEUE_SIZE => overruns = 0
    /\ FillDone =>
          /\ overruns = 1
          /\ Len(enqueued) = AUDIO_QUEUE_SIZE
    /\ \A i \in 1..Len(enqueued) : enqueued[i] = i - 1
    /\ \A i \in 1..Len(dequeued) : dequeued[i] = i - 1
    /\ (FillDone /\ since_enq >= AUDIO_QUEUE_SIZE) => Len(dequeued) = AUDIO_QUEUE_SIZE

\* the pump has processed the queued sample
Pumped == dequeued # <<>>

\* C8: for max_duty from 1 to 32767 (2399 among them) and every sample, the
\* duty the pump writes is within 0 .. max_duty, it is 0 for -32768 and
\* max_duty for +32767.
C8_DutyBounds ==
    (Pumped /\ max_duty >= 1 /\ max_duty <= 32767) =>
        /\ ~halted
        /\ \A c \in {0, 1} :
              /\ 0 <= duty[c] /\ duty[c] <= max_duty
              /\ value = -32768 => duty[c] = 0
              /\ value = 32767 => duty[c] = max_duty

\* full scale at the largest max_duty of the claim
C8_Witness ==
    /\ Pumped
    /\ max_duty = 32767
    /\ value = 32767
    /\ duty[0] = 32767
    /\ duty[1] = 32767

\* C9 as stated: for every max_duty in 0 .. 65535 the duty of the sample 0 is
\* max_duty / 2 rounded down.
C9_Original ==
    (Pumped /\ value = 0 /\ ~halted) =>
        \A c \in {0, 1} : duty[c] = max_duty \div 2

\* C9, amended: for every max_duty in 0 .. 65534 the duty of the sample 0 is
\* max_duty / 2 rounded down, the value startup writes.
C9_MidscaleZero ==
    (Pumped /\ value = 0 /\ max_duty <= 65534) =>
        /\ ~halted
        /\ \A c \in {0, 1} : duty[c] = max_duty \div 2

\* the largest max_duty for which the sample 0 lands on midscale
C9_Witness ==
    /\ Pumped
    /\ value = 0
    /\ max_duty = 65534
    /\ duty[0] = 32767
    /\ duty[1] = 32767

\* max_duty * (v - min) is at most i32::MAX (stated without forming the product)
ProductFits(m, v) ==
    LET d == v + 32768
    IN /\ 0 <= d
       /\ d = 0 \/ m <= I32_MAX \div d

\* C10 as stated: for every sample and every max_duty in 0 .. 65535 the
\* product max_duty * (v - min) fits in i32 and the pump never overflows.
C10_Original ==
    /\ ~halted
    /\ ~RingIsEmpty => ProductFits(max_duty, buffer[head])

\* C10, amended: for every sample and every max_duty in 0 .. 32768 the
\* product fits in i32, the pump does not overflow and the duty it writes is
\* the exact quotient.
C10_NoOverflow ==
    max_duty <= 32768 =>
        /\ ~halted
        /\ ~RingIsEmpty => ProductFits(max_duty, buffer[head])
        /\ Pumped => \A c \in {0, 1} : duty[c] = RescaleFormula(max_duty, value)

\* the largest product that fits: max_duty 32768 and the sample +32767
C10_Witness ==
    /\ Pumped
    /\ ~halted
    /\ max_duty = 32768
    /\ value = 32767
    /\ duty[0] = 32768

\* C11: for a fixed max_duty (2399 and others up to 32768) the duty the pump
\* writes is non-decreasing in the sample: when the pump processes v1 and
\* then v2 with v1 <= v2, the duty it writes for v2 is at least the duty it
\* wrote for v1.
C11_Monotone ==
    [][(Pumped /\ value <= value') =>
          /\ ~halted'
          /\ \A c \in {0, 1} :
                /\ duty[c] = DutyOf(max_duty, value)
                /\ duty'[c] = DutyOf(max_duty, value')
                /\ duty[c] <= duty'[c]]_vars

\* both ends of the sample range went through the pump at the nominal max_duty
C11_Witness ==
    /\ dequeued = <<-32768, 32767>>
    /\ max_duty = 2399
    /\ value = 32767
    /\ duty[0] = 2399

\* C12: once an interrupt is unmasked the priority value of OTG_FS is 16 and
\* that of TIM1_CC is below it; TIM1_CC can be entered in the middle of an
\* OTG_FS invocation, and while a TIM1_CC invocation is in progress OTG_FS
\* neither begins nor takes another step.
C12_PumpAtomic ==
    [][/\ unmasked' # {} =>
             /\ priority'["OTG_FS"] = 16
             /\ priority'["TIM1_CC"] < priority'["OTG_FS"]
       /\ (usbpc # "idle" /\ "TIM1_CC" \in unmasked /\ cc1_listen /\ ~halted
              /\ timpc = "idle") => ENABLED TIM1_CC_Entry
       /\ timpc = "run" =>
             UNCHANGED <<usbpc, data, val, buffer, tail, usb_cache, enqueued,
                         overruns, budget>>]_vars

\* a TIM1_CC invocation in progress between the slot write and the publication
\* of the new tail by the OTG_FS invocation it preempted
C12_Witness ==
    /\ timpc = "run"
    /\ usbpc = "publish"
    /\ ~RingIsEmpty

\* the primary polarity startup gives a channel
PrimaryPolarity(c) == IF c = 0 THEN "ActiveHigh" ELSE "ActiveLow"

\* C13: in every reachable state, startup's intermediate states included, a
\* channel whose output is enabled has the primary polarity startup gives it
\* (C1 active-high, C2 active-low); while the gate is disabled its
\* complementary polarity equals its primary polarity, and whenever the gate
\* is enabled the complementary polarity of each channel is the opposite of
\* its primary polarity.
C13_GatePolarities ==
    /\ \A c \in {0, 1} :
          (ch_enabled[c] \/ comp_enabled[c]) =>
              /\ polarity[c] = PrimaryPolarity(c)
              /\ OutputDisabled => comp_polarity[c] = polarity[c]
    /\ OutputEnabled =>
          \A c \in {0, 1} :
              /\ polarity[c] = PrimaryPolarity(c)
              /\ comp_polarity[c] # polarity[c]

\* startup between lines 110 and 112: the gate is written, C1 is enabled with
\* equal polarities, C2 is not enabled yet and still has its reset polarity
C13_Witness ==
    /\ mainpc = "l112"
    /\ OutputDisabled
    /\ ch_enabled[0] /\ comp_enabled[0]
    /\ polarity[0] = "ActiveHigh" /\ comp_polarity[0] = "ActiveHigh"
    /\ ~ch_enabled[1]
    /\ polarity[1] = "ActiveHigh" /\ comp_polarity[1] = "ActiveLow"

\* the handles the two ISRs hold in their private statics
Cached == tim_cache \cup usb_cache

\* C14: when the first interrupt is unmasked every container has been
\* published, so no ISR invocation finds a container it takes from empty (no
\* unwrap panics); a container is emptied only by an ISR that has not cached
\* its handle yet and caches it in the same invocation, a cached handle stays
\* cached, and an invocation whose handle is cached leaves the container as
\* it is; nothing is published again once an interrupt is unmasked: each
\* container is taken at most once.
C14_HandlesHandedOver ==
    [][/\ (unmasked = {} /\ unmasked' # {}) => published = Containers
       /\ unmasked' # {} => Containers \subseteq (published' \cup Cached')
       /\ ~halted'
       /\ tim_cache \subseteq tim_cache'
       /\ usb_cache \subseteq usb_cache'
       /\ \A c \in Containers :
             /\ (c \in published /\ c \notin published') =>
                   (c \notin Cached /\ c \in Cached')
             /\ c \in Cached => (c \in published' <=> c \in published)
             /\ (unmasked # {} /\ c \notin published) => c \notin published']_vars

\* both ISRs have cached their handles, the containers they took from are
\* empty, and the pump has run again since (it dequeued two samples) while an
\* OTG_FS invocation is in progress
C14_Witness ==
    /\ tim_cache = TimContainers
    /\ usb_cache = UsbContainers
    /\ published = {"G_MAX_DUTY"}
    /\ Len(dequeued) >= 2
    /\ usbpc = "loop"
    /\ ~halted

\* C15: a TIM1_CC invocation removes exactly the oldest sample when the ring
\* is not empty, whatever the number of samples queued, and nothing when it
\* is empty; no other step removes a sample.
C15_OneSamplePerPump ==
    [][/\ (TIM1_CC /\ ~RingIsEmpty) =>
             /\ RingLen' = RingLen - 1
             /\ RingContents' = Tail(RingContents)
             /\ value' = Head(RingContents)
             /\ dequeued' = Append(dequeued, Head(RingContents))
       /\ (TIM1_CC /\ RingIsEmpty) =>
             /\ RingIsEmpty'
             /\ dequeued' = dequeued
       /\ ~TIM1_CC => (head' = head /\ dequeued' = dequeued)]_vars

\* two samples were queued and one pump has run: one sample is left
C15_Witness ==
    /\ Len(enqueued) = 2
    /\ Len(dequeued) = 1
    /\ RingLen = 1
    /\ RingContents = <<enqueued[2]>>
    /\ usbpc = "idle"

\* C16: a TIM1_CC invocation that finds the ring empty does what it does for
\* a dequeued 0: the ring stays empty (head and tail are not moved), the
\* sample is 0, ZERO_COUNT goes up by one (and stays at usize::MAX), the gate
\* closes once ZERO_COUNT is above NO_SIGNAL_SAMPLES, both duties are
\* duty(0), and the invocation returns without a panic.
C16_UnderrunIsZero ==
    [][(TIM1_CC /\ RingIsEmpty) =>
          /\ RingIsEmpty'
          /\ UNCHANGED <<head, tail, buffer>>
          /\ value' = 0
          /\ ZERO_COUNT' = IF ZERO_COUNT < usize_max THEN ZERO_COUNT + 1
                                                    ELSE usize_max
          /\ comp_polarity' = IF ZERO_COUNT' > no_signal_samples
                                 THEN set_output_state(FALSE)
                                 ELSE comp_polarity
          /\ \A c \in {0, 1} : duty'[c] = RescaleFormula(max_duty, 0)
          /\ ~halted'
          /\ timpc' = "idle"]_vars

\* the first underrun after a non-zero sample: the counter is at 1, the gate
\* is still open and both duties are at duty(0)
C16_Witness ==
    /\ RingIsEmpty
    /\ dequeued # <<>>
    /\ dequeued[Len(dequeued)] # 0
    /\ value = 0
    /\ ZERO_COUNT = 1
    /\ zero_run = 1
    /\ OutputEnabled
    /\ duty[0] = 1199
    /\ duty[1] = 1199

\* C17: once startup has set both duties (line 119), and so after startup and
\* after every TIM1_CC invocation, the duty of C1 equals the duty of C2.
C17_SameDuty ==
    (mainpc \notin {"l106", "l108", "l109", "l110", "l112", "l113", "l114",
                    "l116", "l118", "l119"}) =>
        duty[0] = duty[1]

\* the pump has written the duty of the sample 255 to both channels
C17_Witness ==
    /\ mainpc = "idle"
    /\ value = 255
    /\ duty[0] = 1208
    /\ duty[1] = 1208

\* C19: from the unmasking of TIM1_CC on, so at the end of startup and after
\* every TIM1_CC invocation, the output is disabled if and only if ZERO_COUNT
\* is above NO_SIGNAL_SAMPLES (and enabled otherwise); ZERO_COUNT stays at
\* usize::MAX once it is there, however long the silence goes on.
C19_GateIffCount ==
    /\ "TIM1_CC" \in unmasked =>
          /\ OutputDisabled <=> ZERO_COUNT > no_signal_samples
          /\ OutputEnabled <=> ZERO_COUNT <= no_signal_samples
    /\ ZERO_COUNT <= usize_max
    /\ (zero_run = usize_max /\ SeenNonZero) => ZERO_COUNT = usize_max

\* the counter has saturated during the silence after a signal
C19_Witness ==
    /\ SeenNonZero
    /\ ZERO_COUNT = usize_max
    /\ zero_run = usize_max
    /\ OutputDisabled

\* C20: at the nominal max_duty, from the unmasking of TIM1_CC on (at the end
\* of startup and after every TIM1_CC invocation), whenever the output is
\* disabled both duties are max_duty / 2.
C20_MutedAtMidscale ==
    ("TIM1_CC" \in unmasked /\ OutputDisabled /\ max_duty = 2399) =>
        (duty[0] = 1199 /\ duty[1] = 1199)

\* the gate has just closed on the silence after a signal
C20_Witness ==
    /\ SeenNonZero
    /\ OutputDisabled
    /\ ZERO_COUNT = no_signal_samples + 1
    /\ value = 0
    /\ max_duty = 2399
    /\ duty[0] = 1199
    /\ duty[1] = 1199

\* the signed 16-bit value with low byte lo and high byte hi
LittleEndian16(lo, hi) ==
    LET u == lo + 256 * hi
    IN IF u >= 32768 THEN u - 65536 ELSE u

\* C18: an OTG_FS invocation that read len bytes makes floor(len / 2) enqueue
\* calls before it returns, the k-th (from 0) with the little-endian value of
\* bytes 2k and 2k + 1, and a trailing odd byte is dropped; a call on a full
\* ring leaves the ring as it is and the next call is for the next two bytes;
\* a call that succeeds appends its value to the ring.  An invocation whose
\* poll or read yields nothing leaves the ring unchanged.
C18_PacketToSamples ==
    [][/\ (usbpc = "idle" /\ usbpc' = "loop") =>
             /\ data' = packet'
             /\ tries' = 0
             /\ UNCHANGED <<buffer, head, tail, enqueued, overruns>>
       /\ (tries' = tries + 1) =>
             /\ 2 * tries + 2 <= Len(packet)
             /\ val' = LittleEndian16(packet[2 * tries + 1], packet[2 * tries + 2])
             /\ UNCHANGED <<buffer, head, tail, enqueued>>
             /\ RingLen = audio_queue_size - 1 =>
                   (overruns' = overruns + 1 /\ usbpc' = "loop")
             /\ RingLen < audio_queue_size - 1 =>
                   (overruns' = overruns /\ usbpc' = "write")
       /\ (usbpc = "publish" /\ usbpc' = "loop") =>
             LET v == LittleEndian16(packet[2 * tries - 1], packet[2 * tries])
             IN /\ enqueued' = Append(enqueued, v)
                /\ RingContents' = Append(RingContents, v)
                /\ tries' = tries
       /\ (usbpc = "loop" /\ usbpc' = "idle") =>
             /\ tries = Len(packet) \div 2
             /\ Len(data) = Len(packet) % 2
             /\ UNCHANGED <<buffer, head, tail, enqueued, overruns>>
       /\ OTG_FS_NoData => UNCHANGED <<buffer, head, tail, enqueued, overruns>>]_vars

\* a packet of two samples met a full ring: the first sample was dropped, the
\* pump has made room since, and the second sample is being enqueued
C18_Witness ==
    /\ Len(packet) = 4
    /\ overruns = 1
    /\ tries = 2
    /\ usbpc = "publish"
    /\ val = LittleEndian16(packet[3], packet[4])
    /\ val # LittleEndian16(packet[1], packet[2])
    /\ buffer[tail] = val

=============================================================================
